---------------------------- MODULE Spec2Model ----------------------------
(***************************************************************************)
(* DG::VideoCapture (src/src/VideoCapture.{h,cpp}): the frame-production   *)
(* pipeline on top of a demuxer, a decoder and an optional filter chain.   *)
(*                                                                         *)
(* The C++ object is the record vc (one field per data member, a handle    *)
(* is TRUE when it is non-null).  The objects of the media library the     *)
(* handles point to are the record lib.  Every public operation is one     *)
(* action; the read loops are recursive operators that follow the source   *)
(* statement by statement.                                                 *)
(***************************************************************************)
EXTENDS Integers, Sequences, FiniteSets

VARIABLES
    vc,     \* the data members of the VideoCapture object
    lib,    \* the library objects behind the handles (demuxer, decoder, filter chain)
    last,   \* the last operation: its name, arguments, result and the state it started in
    hist,   \* the current session: the strategy its open selected, what it
            \* delivered, whether it ran dry and was read from after that
    life    \* "live", "destroyed" (destructor ran), "crashed" (null dereference),
            \* "scoped" (live, inside a with-statement) or "reading" (live,
            \* inside the loop of a readFrame call)

vars == <<vc, lib, last, hist, life>>

---------------------------------------------------------------------------
(* Bounds of the model *)

MaxPkts == 2
MaxDecDelay == 1
MaxFilterDelay == 2
TicksPerFrame == 2
SrcWidth == 64
SrcHeight == 48
TargetSize == 32
MaxPropId == 8
TimeBaseDen == 50
MaxDim == 3

\* the count at which the signals a decoder or a chain is sent stop being
\* counted
MaxSignals == 2

\* the pictures the deepest decoder holds back (SpecFault)
DeepDecDelay == 2

(* Values of the media library that the members are compared with *)

AV_NOPTS_VALUE == -1
AV_PIX_FMT_NONE == "AV_PIX_FMT_NONE"
AVERROR_STREAM_NOT_FOUND == -2

(* cv::VideoCaptureProperties *)

CAP_PROP_POS_MSEC == 0
CAP_PROP_POS_FRAMES == 1
CAP_PROP_POS_AVI_RATIO == 2
CAP_PROP_FRAME_WIDTH == 3
CAP_PROP_FRAME_HEIGHT == 4
CAP_PROP_FPS == 5
CAP_PROP_FOURCC == 6
CAP_PROP_FRAME_COUNT == 7

---------------------------------------------------------------------------
(* Inputs *)

PktKinds == {"v", "a"}

PktSeqs == UNION {[1..n -> PktKinds] : n \in 0..MaxPkts}

\* What the container reports about its video stream: a frame count
\* (nb_frames > 0), a duration (other than AV_NOPTS_VALUE), an average
\* frame rate and a real frame rate (den > 0).
Metas == [count : BOOLEAN, dur : BOOLEAN, avg : BOOLEAN, real : BOOLEAN]

FullMeta == [count |-> TRUE, dur |-> TRUE, avg |-> TRUE, real |-> TRUE]

\* A container file: its compressed units in file order ("v": a unit of the
\* video stream, "a": a unit of another stream), the index of its video
\* stream, the number of pictures its decoder holds back, its picture size,
\* what it reports about its video stream.
Files ==
    [pkts : PktSeqs, vidx : {0, 1}, delay : 0..MaxDecDelay,
     width : {SrcWidth}, height : {SrcHeight}, pix_fmt : {"yuv420p"},
     meta : {FullMeta}]

NoFile ==
    [pkts |-> <<>>, vidx |-> 0, delay |-> 0, width |-> 0, height |-> 0,
     pix_fmt |-> AV_PIX_FMT_NONE, meta |-> FullMeta]

Targets == {0, TargetSize}

\* The library call of open() that fails ("none": every call succeeds).
\* The calls of initFilterGraph are grouped by the state they leave behind:
\* graph_alloc (avfilter_graph_alloc), create_src (the "buffer" lookup and
\* creation), create_sink (the "buffersink" lookup and creation),
\* graph_build (pix_fmts, scale, pad, format, the links, graph_config).
OpenSteps ==
    {"avformat_open_input", "avformat_find_stream_info", "av_find_best_stream",
     "avcodec_alloc_context3", "avcodec_parameters_to_context", "avcodec_open2",
     "av_frame_alloc", "sws_getContext"}

FilterSteps == {"graph_alloc", "create_src", "create_sink", "graph_build"}

FailPoints == {"none"} \cup OpenSteps \cup FilterSteps

\* The property ids get is called with: the eight supported ones, a
\* negative one and the ones above them.
PropIds == -1..MaxPropId

SupportedProps ==
    {CAP_PROP_POS_MSEC, CAP_PROP_POS_FRAMES, CAP_PROP_POS_AVI_RATIO,
     CAP_PROP_FRAME_WIDTH, CAP_PROP_FRAME_HEIGHT, CAP_PROP_FPS,
     CAP_PROP_FOURCC, CAP_PROP_FRAME_COUNT}

\* The environment of one readFrame call: whether the caller's frame is
\* non-null, whether av_packet_alloc succeeds, whether the decoder rejects
\* the unit it is sent, what a null dereference does, and whether the
\* filter chain works ("ok"), fails the pushes ("push_fail") or fails the
\* pulls with an error other than 'needs more input' ("pull_fail"); a
\* failing chain is drawn for the calls nothing else fails in.
ReadEnvs ==
    {e \in [dst : BOOLEAN, pkt_alloc : BOOLEAN, reject : BOOLEAN,
            ub : {"crash", "error"}, chain : {"ok", "push_fail", "pull_fail"}] :
        e.chain # "ok" => (e.dst /\ e.pkt_alloc /\ ~e.reject /\ e.ub = "error")}

---------------------------------------------------------------------------
(* Helpers *)

Count(seq, n, k) == Cardinality({i \in 1..n : seq[i] = k})

\* presentation timestamp of the k-th picture of a file
PtsOf(k) == k * TicksPerFrame

NumPictures(file) == Count(file.pkts, Len(file.pkts), "v")

Min(a, b) == IF a < b THEN a ELSE b

Emit(w, e) == [w EXCEPT !.log = Append(@, e)]

\* The one element of a one-element set: Once({F(x) : x \in {e}}) is F(e)
\* with e evaluated once, the way a statement sequence uses a local.
Once(S) == CHOOSE x \in S : TRUE

\* The library allocating the object behind handle h of the library
\* record l (a leak when the object allocated before is still there).
acquire(l, h) == [l EXCEPT !.leaked = @ \/ l[h], ![h] = TRUE]

\* The double values get returns, kept exact as fractions n/d with d > 0.
Rat(n, d) == [n |-> n, d |-> d]

RatMul(a, b) == Rat(a.n * b.n, a.d * b.d)

RatEq(a, b) == a.n * b.d = b.n * a.d

RatPos(a) == a.n > 0

\* av_q2d of an AVRational
av_q2d(q) == Rat(q.num, q.den)

\* The AVStream of the video stream of a file: its time base is
\* 1/TimeBaseDen seconds, its pictures are TicksPerFrame ticks apart, and
\* the container records the number of its pictures and their duration.
Stream(file) ==
    [time_base |-> [num |-> 1, den |-> TimeBaseDen],
     avg_frame_rate |-> IF file.meta.avg
                        THEN [num |-> TimeBaseDen, den |-> TicksPerFrame]
                        ELSE [num |-> 0, den |-> 0],
     r_frame_rate |-> IF file.meta.real
                      THEN [num |-> TimeBaseDen, den |-> TicksPerFrame]
                      ELSE [num |-> 0, den |-> 0],
     nb_frames |-> IF file.meta.count THEN NumPictures(file) ELSE 0,
     duration |-> IF file.meta.dur
                  THEN NumPictures(file) * TicksPerFrame
                  ELSE AV_NOPTS_VALUE,
     codec_tag |-> IF file.pix_fmt = AV_PIX_FMT_NONE THEN 0 ELSE 1]

---------------------------------------------------------------------------
(* The object after construction, and the library with nothing allocated *)

\* ResizeCapture.h lines 40-44: the members the subclass adds to the object
InitResize ==
    [m_filter_graph |-> FALSE, m_buffersrc_ctx |-> FALSE,
     m_buffersink_ctx |-> FALSE, m_target_width |-> 0, m_target_height |-> 0]

InitVC ==
    [m_fmt_ctx |-> FALSE, m_codec_ctx |-> FALSE, m_sws_ctx |-> FALSE,
     m_yuv_frame |-> FALSE, m_video_stream_index |-> -1,
     m_width |-> 0, m_height |-> 0, m_src_pix_fmt |-> AV_PIX_FMT_NONE,
     m_flush_pending |-> FALSE, m_frame_count |-> 0,
     m_last_pts |-> AV_NOPTS_VALUE, m_readFrameImpl |-> "readFrameDirect",
     m_filter_graph |-> FALSE, m_buffersrc_ctx |-> FALSE,
     m_buffersink_ctx |-> FALSE, m_target_width |-> 0, m_target_height |-> 0,
     resize |-> InitResize]

InitLib ==
    [fmt_live |-> FALSE, file |-> NoFile, pos |-> 0, io_error |-> FALSE,
     codec_live |-> FALSE, codec_open |-> FALSE, dec_buf |-> <<>>,
     draining |-> FALSE, dec_eos |-> 0, dec_foreign |-> FALSE,
     late_unit |-> FALSE, dec_out |-> 0,
     sws_live |-> FALSE, sws_out |-> <<0, 0>>, frame_live |-> FALSE,
     graph_live |-> FALSE, filt_buf |-> <<>>, filt_eof |-> FALSE, fdelay |-> 0,
     filt_out |-> <<0, 0>>, filt_eos |-> 0, late_push |-> FALSE,
     bad_free |-> FALSE, leaked |-> FALSE]

InitHist ==
    [open |-> FALSE, clean |-> TRUE, out |-> <<>>, impl |-> "readFrameDirect",
     eof |-> FALSE, past_eof |-> FALSE]

isOpened(v) == v.m_fmt_ctx /\ v.m_codec_ctx

outputWidth(v) == IF v.m_target_width > 0 THEN v.m_target_width ELSE v.m_width

outputHeight(v) == IF v.m_target_height > 0 THEN v.m_target_height ELSE v.m_height

---------------------------------------------------------------------------
(* VideoCapture::get: the value returned for the object v over the library *)
(* objects l.                                                              *)

\* lines 212-225: case cv::CAP_PROP_FRAME_COUNT
getFrameCount(v, l) ==
    LET stream == Stream(l.file)
    IN IF stream.nb_frames > 0
       THEN Rat(stream.nb_frames, 1)
       ELSE IF stream.duration # AV_NOPTS_VALUE /\ stream.avg_frame_rate.den > 0
       THEN RatMul(RatMul(Rat(stream.duration, 1), av_q2d(stream.time_base)),
                   av_q2d(stream.avg_frame_rate))
       ELSE Rat(-1, 1)

\* lines 195-199, and the same cases returning the output size
getFrameSize_output(v, propId) ==
    IF propId = CAP_PROP_FRAME_WIDTH
    THEN Rat(IF v.m_target_width > 0 THEN v.m_target_width ELSE v.m_width, 1)
    ELSE Rat(IF v.m_target_height > 0 THEN v.m_target_height ELSE v.m_height, 1)

getFrameSize(v, propId) ==
    IF propId = CAP_PROP_FRAME_WIDTH
    THEN Rat(v.m_width, 1)
    ELSE Rat(v.m_height, 1)

get(v, l, propId) ==
    IF ~isOpened(v)
    THEN Rat(-1, 1)
    ELSE LET stream == Stream(l.file)
         IN CASE propId \in {CAP_PROP_FRAME_WIDTH, CAP_PROP_FRAME_HEIGHT} ->
                    getFrameSize(v, propId)
              [] propId = CAP_PROP_FPS ->
                    IF stream.avg_frame_rate.den > 0
                    THEN av_q2d(stream.avg_frame_rate)
                    ELSE IF stream.r_frame_rate.den > 0
                    THEN av_q2d(stream.r_frame_rate)
                    ELSE Rat(-1, 1)
              [] propId = CAP_PROP_FRAME_COUNT -> getFrameCount(v, l)
              [] propId = CAP_PROP_POS_FRAMES -> Rat(v.m_frame_count, 1)
              [] propId = CAP_PROP_POS_MSEC ->
                    IF v.m_last_pts = AV_NOPTS_VALUE
                    THEN Rat(0, 1)
                    ELSE RatMul(RatMul(Rat(v.m_last_pts, 1),
                                       av_q2d(stream.time_base)),
                                Rat(1000, 1))
              [] propId = CAP_PROP_POS_AVI_RATIO ->
                    LET total == getFrameCount(v, l)
                    IN IF RatPos(total)
                       THEN RatMul(Rat(v.m_frame_count, 1), Rat(total.d, total.n))
                       ELSE Rat(0, 1)
              [] propId = CAP_PROP_FOURCC -> Rat(stream.codec_tag, 1)
              [] OTHER -> Rat(-1, 1)

---------------------------------------------------------------------------
(* The media library.  Each operator takes the world w = [vc, lib, log,    *)
(* crashed, dst_pts, dst_size] and returns the world after the call (with  *)
(* the call's result where it has one): log is the sequence of library     *)
(* calls the running operation has made, dst_pts the timestamp and         *)
(* dst_size the width and height of the picture written to the caller's    *)
(* frame.  Releasing an object that is not allocated is recorded  *)
(* in lib.bad_free, allocating an object of a kind while the one the       *)
(* handle pointed to is still allocated in lib.leaked.  What a decoder and *)
(* a filter chain have been handed since they were allocated is recorded   *)
(* with them: dec_eos counts the end-of-stream signals and empty packets   *)
(* submitted to the decoder, dec_foreign is set by a packet that is        *)
(* neither a unit of the video stream nor the null packet, late_unit by a  *)
(* unit submitted after an end-of-stream signal, dec_out counts the        *)
(* pictures the decoder has handed out, filt_eos counts                    *)
(* the end-of-stream signals sent to the chain, late_push is set by a      *)
(* picture pushed after one (the counts stop at MaxSignals).               *)

avcodec_free_context(w) ==
    [Emit(w, "avcodec_free_context") EXCEPT
        !.lib.bad_free = @ \/ ~w.lib.codec_live,
        !.lib.codec_live = FALSE, !.lib.codec_open = FALSE,
        !.lib.dec_buf = <<>>, !.lib.draining = FALSE,
        !.lib.dec_eos = 0, !.lib.dec_foreign = FALSE,
        !.lib.late_unit = FALSE, !.lib.dec_out = 0]

sws_freeContext(w) ==
    [Emit(w, "sws_freeContext") EXCEPT
        !.lib.bad_free = @ \/ ~w.lib.sws_live,
        !.lib.sws_live = FALSE, !.lib.sws_out = <<0, 0>>]

avformat_close_input(w) ==
    [Emit(w, "avformat_close_input") EXCEPT
        !.lib.bad_free = @ \/ ~w.lib.fmt_live,
        !.lib.fmt_live = FALSE, !.lib.file = NoFile, !.lib.pos = 0,
        !.lib.io_error = FALSE]

av_frame_free(w) ==
    [Emit(w, "av_frame_free") EXCEPT
        !.lib.bad_free = @ \/ ~w.lib.frame_live,
        !.lib.frame_live = FALSE]

avfilter_graph_free(w) ==
    [Emit(w, "avfilter_graph_free") EXCEPT
        !.lib.bad_free = @ \/ ~w.lib.graph_live,
        !.lib.graph_live = FALSE, !.lib.filt_buf = <<>>,
        !.lib.filt_eof = FALSE, !.lib.fdelay = 0, !.lib.filt_out = <<0, 0>>,
        !.lib.filt_eos = 0, !.lib.late_push = FALSE]

\* av_read_frame: the next unit of the file, or a negative result and a
\* blank packet (stream_index 0) when no unit is left or the input has
\* failed (io_error).  And a demuxer that hands out a unit of another
\* stream without moving past it.
av_read_frame_stuck(w) ==
    IF w.lib.pos < Len(w.lib.file.pkts) /\ ~w.lib.io_error
    THEN LET n == w.lib.pos + 1
             kind == w.lib.file.pkts[n]
         IN [w |-> [Emit(w, "av_read_frame") EXCEPT
                       !.lib.pos = IF kind = "v" THEN n ELSE @],
             ret |-> 0,
             pkt |-> [kind |-> kind,
                      stream_index |-> IF kind = "v" THEN w.lib.file.vidx
                                       ELSE 1 - w.lib.file.vidx,
                      pts |-> PtsOf(Count(w.lib.file.pkts, n, "v"))]]
    ELSE [w |-> Emit(w, "av_read_frame"),
          ret |-> -1,
          pkt |-> [kind |-> "blank", stream_index |-> 0, pts |-> AV_NOPTS_VALUE]]

av_read_frame(w) ==
    IF w.lib.pos < Len(w.lib.file.pkts) /\ ~w.lib.io_error
    THEN LET n == w.lib.pos + 1
             kind == w.lib.file.pkts[n]
         IN [w |-> [Emit(w, "av_read_frame") EXCEPT !.lib.pos = n],
             ret |-> 0,
             pkt |-> [kind |-> kind,
                      stream_index |-> IF kind = "v" THEN w.lib.file.vidx
                                       ELSE 1 - w.lib.file.vidx,
                      pts |-> PtsOf(Count(w.lib.file.pkts, n, "v"))]]
    ELSE [w |-> Emit(w, "av_read_frame"),
          ret |-> -1,
          pkt |-> [kind |-> "blank", stream_index |-> 0, pts |-> AV_NOPTS_VALUE]]

NullPacket == [kind |-> "null", stream_index |-> 0, pts |-> AV_NOPTS_VALUE]

\* avcodec_send_packet: refused by a decoder that is not open, that is
\* draining already, or that rejects the unit; a null or empty packet is
\* the end-of-stream signal and starts draining.
avcodec_send_packet(w, pkt, env) ==
    LET w1 == [Emit(w, IF pkt.kind = "v" THEN "send_packet"
                       ELSE IF pkt.kind = "null" THEN "send_eos"
                       ELSE "send_blank") EXCEPT
                  !.lib.dec_eos = IF pkt.kind \in {"null", "blank"}
                                  THEN Min(@ + 1, MaxSignals) ELSE @,
                  !.lib.dec_foreign = @ \/ pkt.kind \notin {"v", "null"},
                  !.lib.late_unit = @ \/ (pkt.kind = "v" /\ w.lib.dec_eos > 0)]
    IN IF ~w.lib.codec_open \/ w.lib.draining
       THEN [w |-> w1, ret |-> -1]
       ELSE IF pkt.kind # "v"
       THEN [w |-> [w1 EXCEPT !.lib.draining = TRUE], ret |-> 0]
       ELSE IF env.reject
       THEN [w |-> w1, ret |-> -1]
       ELSE [w |-> [w1 EXCEPT !.lib.dec_buf = Append(@, pkt.pts)], ret |-> 0]

\* avcodec_receive_frame into m_yuv_frame: the oldest picture once the
\* decoder holds more than its delay, or any picture left while draining.
\* A null m_yuv_frame handed to an open decoder is a null dereference.
avcodec_receive_frame(w, env) ==
    LET w1 == Emit(w, "avcodec_receive_frame")
        ready == IF w.lib.draining THEN Len(w.lib.dec_buf) > 0
                 ELSE Len(w.lib.dec_buf) > w.lib.file.delay
    IN IF ~w.lib.codec_open
       THEN [w |-> w1, ret |-> -1, pts |-> AV_NOPTS_VALUE]
       ELSE IF ~w.vc.m_yuv_frame
       THEN [w |-> [w1 EXCEPT !.crashed = (env.ub = "crash")],
             ret |-> -1, pts |-> AV_NOPTS_VALUE]
       ELSE IF ready
       THEN [w |-> [w1 EXCEPT !.lib.dec_buf = Tail(@), !.lib.dec_out = @ + 1],
             ret |-> 0, pts |-> Head(w.lib.dec_buf)]
       ELSE [w |-> w1, ret |-> -1, pts |-> AV_NOPTS_VALUE]

\* sws_scale with m_sws_ctx; a null context is a null dereference.  Its
\* result is not looked at by the caller.
sws_scale(w, env) ==
    [Emit(w, "sws_scale") EXCEPT
        !.crashed = @ \/ (~w.vc.m_sws_ctx /\ env.ub = "crash"),
        !.dst_size = w.lib.sws_out]

\* av_buffersrc_add_frame_flags with a picture: queued unless the chain
\* has been told the stream ended or fails.
av_buffersrc_add_frame(w, pts, env) ==
    LET w1 == [Emit(w, "buffersrc_add_frame") EXCEPT
                  !.lib.late_push = @ \/ w.lib.filt_eof]
    IN IF w.lib.filt_eof \/ env.chain = "push_fail"
       THEN [w |-> w1, ret |-> -1]
       ELSE [w |-> [w1 EXCEPT !.lib.filt_buf = Append(@, pts)], ret |-> 0]

\* av_buffersrc_add_frame_flags with a null picture: the chain's
\* end-of-stream signal.
av_buffersrc_close(w) ==
    [w |-> [Emit(w, "buffersrc_eos") EXCEPT
               !.lib.filt_eof = TRUE,
               !.lib.filt_eos = Min(@ + 1, MaxSignals)],
     ret |-> 0]

\* av_buffersink_get_frame: the oldest queued picture once the chain
\* holds more than its delay, or any picture left after end-of-stream;
\* a failing chain hands out nothing and keeps what it holds.
av_buffersink_get_frame(w, env) ==
    LET w1 == Emit(w, "buffersink_get_frame")
        ready == IF w.lib.filt_eof THEN Len(w.lib.filt_buf) > 0
                 ELSE Len(w.lib.filt_buf) > w.lib.fdelay
    IN IF ready /\ env.chain # "pull_fail"
       THEN [w |-> [w1 EXCEPT !.lib.filt_buf = Tail(@),
                              !.dst_size = w.lib.filt_out],
             ret |-> 0, pts |-> Head(w.lib.filt_buf)]
       ELSE [w |-> w1, ret |-> -1, pts |-> AV_NOPTS_VALUE]

---------------------------------------------------------------------------
(* VideoCapture::close *)

\* lines 128-134, and the same block without its null check
closeCodec_unguarded(w) ==
    [avcodec_free_context(Emit(w, "avcodec_flush_buffers"))
        EXCEPT !.vc.m_codec_ctx = FALSE]

closeCodec(w) ==
    IF w.vc.m_codec_ctx
    THEN [avcodec_free_context(Emit(w, "avcodec_flush_buffers"))
             EXCEPT !.vc.m_codec_ctx = FALSE]
    ELSE w

\* lines 167-175, and the same block without the three position fields
resetProperties_keepPosition(w) ==
    [w EXCEPT
        !.vc.m_video_stream_index = -1,
        !.vc.m_width = 0, !.vc.m_height = 0,
        !.vc.m_src_pix_fmt = AV_PIX_FMT_NONE,
        !.vc.m_target_width = 0,
        !.vc.m_target_height = 0]

resetProperties(w) ==
    [w EXCEPT
        !.vc.m_video_stream_index = -1,
        !.vc.m_width = 0, !.vc.m_height = 0,
        !.vc.m_src_pix_fmt = AV_PIX_FMT_NONE,
        !.vc.m_flush_pending = FALSE,
        !.vc.m_frame_count = 0,
        !.vc.m_last_pts = AV_NOPTS_VALUE,
        !.vc.m_target_width = 0,
        !.vc.m_target_height = 0]

\* lines 137-141
closeSws(w) ==
    IF w.vc.m_sws_ctx
    THEN [sws_freeContext(w) EXCEPT !.vc.m_sws_ctx = FALSE]
    ELSE w

\* lines 144-148
closeInput(w) ==
    IF w.vc.m_fmt_ctx
    THEN [avformat_close_input(w) EXCEPT !.vc.m_fmt_ctx = FALSE]
    ELSE w

\* lines 151-156
closeFrame(w) ==
    IF w.vc.m_yuv_frame
    THEN [av_frame_free(w) EXCEPT !.vc.m_yuv_frame = FALSE]
    ELSE w

\* lines 159-165 (and lines 30-36 of the destructor); and the same block
\* leaving the two endpoint pointers as they are
closeFilterGraph_endpointsKept(w) ==
    IF w.vc.m_filter_graph
    THEN [avfilter_graph_free(w) EXCEPT !.vc.m_filter_graph = FALSE]
    ELSE w

closeFilterGraph(w) ==
    IF w.vc.m_filter_graph
    THEN [avfilter_graph_free(w) EXCEPT
             !.vc.m_filter_graph = FALSE,
             !.vc.m_buffersrc_ctx = FALSE,
             !.vc.m_buffersink_ctx = FALSE]
    ELSE w

close(w) ==
    Once({resetProperties(w5) :
            w5 \in {closeFilterGraph(w4) :
            w4 \in {closeFrame(w3) :
            w3 \in {closeInput(w2) :
            w2 \in {closeSws(w1) :
            w1 \in {closeCodec(w0) : w0 \in {w}}}}}}})

(* VideoCapture::~VideoCapture *)

destructor(w) == Once({closeFilterGraph(w1) : w1 \in {close(w)}})

(* The Python binding's context manager: __enter__ hands the object back, *)
(* __exit__ calls close() whatever the three exception arguments are; and *)
(* an __exit__ that leaves the object as it is                            *)

enterScope(w) == w

exitScope_keep(w) == w

exitScope(w) == close(w)

---------------------------------------------------------------------------
(* The geometry of the filter chain: the "scale" filter with               *)
(* force_original_aspect_ratio=decrease, then the "pad" filter.            *)

\* av_rescale(a, b, c): a * b / c rounded to the nearest integer
av_rescale(a, b, c) == (a * b + c \div 2) \div c

\* scale=tw:th:force_original_aspect_ratio=decrease on an iw x ih picture:
\* the largest size of the source's aspect ratio inside tw x th
scaleOutput(iw, ih, tw, th) ==
    <<Min(av_rescale(th, iw, ih), tw), Min(av_rescale(tw, ih, iw), th)>>

\* pad=tw:th:(ow-iw)/2:(oh-ih)/2, and a chain without the pad filter
padOutput_absent(sz, tw, th) == sz

padOutput(sz, tw, th) == <<tw, th>>

\* avfilter_graph_config refuses a chain whose scaled picture is empty
chainConfigurable(iw, ih, tw, th) ==
    /\ scaleOutput(iw, ih, tw, th)[1] >= 1
    /\ scaleOutput(iw, ih, tw, th)[2] >= 1

---------------------------------------------------------------------------
(* VideoCapture::initFilterGraph: [w, ret]; fd is the number of pictures   *)
(* the configured chain holds back, failAt the library call that fails.    *)

initFilterGraph(w, fd, failAt) ==
    IF failAt = "graph_alloc"
    THEN [w |-> Emit(w, "avfilter_graph_alloc"), ret |-> FALSE]
    ELSE
    LET w1 == [Emit(w, "avfilter_graph_alloc") EXCEPT
                  !.vc.m_filter_graph = TRUE, !.lib = acquire(@, "graph_live"),
                  !.lib.filt_buf = <<>>, !.lib.filt_eof = FALSE,
                  !.lib.filt_eos = 0, !.lib.late_push = FALSE,
                  !.lib.fdelay = fd]
    IN IF failAt = "create_src"
       THEN [w |-> w1, ret |-> FALSE]
       ELSE
       LET w2 == [w1 EXCEPT !.vc.m_buffersrc_ctx = TRUE]
       IN IF failAt = "create_sink"
          THEN [w |-> w2, ret |-> FALSE]
          ELSE
          LET w3 == [w2 EXCEPT !.vc.m_buffersink_ctx = TRUE]
          IN IF \/ failAt = "graph_build"
                \/ ~chainConfigurable(w.vc.m_width, w.vc.m_height,
                                      w.vc.m_target_width, w.vc.m_target_height)
             THEN [w |-> w3, ret |-> FALSE]
             ELSE [w |-> [Emit(w3, "avfilter_graph_config") EXCEPT
                             !.lib.filt_out =
                                 padOutput(scaleOutput(w.vc.m_width, w.vc.m_height,
                                                       w.vc.m_target_width,
                                                       w.vc.m_target_height),
                                           w.vc.m_target_width,
                                           w.vc.m_target_height)],
                   ret |-> TRUE]

---------------------------------------------------------------------------
(* VideoCapture::open: [w, ret] *)

\* lines 109-114: what open does when initFilterGraph has failed, and the
\* same branch returning false without the close()
filterGraphFailed_noClose(w) == [w |-> w, ret |-> FALSE]

filterGraphFailed(w) == [w |-> close(w), ret |-> FALSE]

\* line 47: the close() open starts with, and open without it
closePrior_skipped(w) == w

closePrior(w) == close(w)

\* line 118: the else branch of the strategy choice, and the same branch
\* leaving the read implementation as it was
selectDirect_keep(w) == w

selectDirect(w) == [w EXCEPT !.vc.m_readFrameImpl = "readFrameDirect"]

\* lines 95-99: the conversion context, from and to the source size
sws_getContext(w) ==
    [Emit(w, "sws_getContext") EXCEPT
        !.vc.m_sws_ctx = TRUE, !.lib = acquire(@, "sws_live"),
        !.lib.sws_out = <<w.vc.m_width, w.vc.m_height>>]

\* lines 103-121: the choice of the read implementation, and the filter
\* chain for the Filtered one
selectStrategy(w, fd, failAt) ==
    IF w.vc.m_target_width > 0 /\ w.vc.m_target_height > 0
    THEN Once({IF ~g.ret THEN filterGraphFailed(g.w)
                         ELSE [w |-> g.w, ret |-> TRUE] :
                 g \in {initFilterGraph(
                            [w EXCEPT !.vc.m_readFrameImpl = "readFrameFiltered"],
                            fd, failAt)}})
    ELSE [w |-> selectDirect(w), ret |-> TRUE]

open(w, file, fd, target_width, target_height, failAt) ==
    LET w0 == [closePrior(w) EXCEPT
                  !.vc.m_target_width = target_width,
                  !.vc.m_target_height = target_height]
    IN
    IF failAt = "avformat_open_input"
    THEN [w |-> Emit(w0, "avformat_open_input"), ret |-> FALSE]
    ELSE
    LET w1 == [Emit(w0, "avformat_open_input") EXCEPT
                  !.vc.m_fmt_ctx = TRUE, !.lib = acquire(@, "fmt_live"),
                  !.lib.file = file, !.lib.pos = 0, !.lib.io_error = FALSE]
    IN
    IF failAt = "avformat_find_stream_info"
    THEN [w |-> w1, ret |-> FALSE]
    ELSE IF failAt = "av_find_best_stream"
    THEN [w |-> [w1 EXCEPT !.vc.m_video_stream_index = AVERROR_STREAM_NOT_FOUND],
          ret |-> FALSE]
    ELSE
    LET w2 == [w1 EXCEPT !.vc.m_video_stream_index = file.vidx]
    IN
    IF failAt = "avcodec_alloc_context3"
    THEN [w |-> Emit(w2, "avcodec_alloc_context3"), ret |-> FALSE]
    ELSE
    LET w3 == [Emit(w2, "avcodec_alloc_context3") EXCEPT
                  !.vc.m_codec_ctx = TRUE, !.lib = acquire(@, "codec_live"),
                  !.lib.codec_open = FALSE, !.lib.dec_buf = <<>>,
                  !.lib.draining = FALSE,
                  !.lib.dec_eos = 0, !.lib.dec_foreign = FALSE,
        !.lib.late_unit = FALSE, !.lib.dec_out = 0]
    IN
    IF failAt \in {"avcodec_parameters_to_context", "avcodec_open2"}
    THEN [w |-> w3, ret |-> FALSE]
    ELSE
    LET w4 == [Emit(w3, "avcodec_open2") EXCEPT
                  !.lib.codec_open = TRUE,
                  !.vc.m_width = file.width,
                  !.vc.m_height = file.height,
                  !.vc.m_src_pix_fmt = file.pix_fmt]
    IN
    IF failAt = "av_frame_alloc"
    THEN [w |-> Emit(w4, "av_frame_alloc"), ret |-> FALSE]
    ELSE
    LET w5 == [Emit(w4, "av_frame_alloc") EXCEPT
                  !.vc.m_yuv_frame = TRUE, !.lib = acquire(@, "frame_live")]
    IN
    IF failAt = "sws_getContext"
    THEN [w |-> Emit(w5, "sws_getContext"), ret |-> FALSE]
    ELSE
    Once({selectStrategy(w6, fd, failAt) :
            w6 \in {sws_getContext(v) : v \in {w5}}})

---------------------------------------------------------------------------
(* VideoCapture::receiveAndConvert: [w, ret]; and the same function not   *)
(* counting the picture it pulled                                         *)

receiveAndConvert_uncounted(w, env) ==
    LET f == avcodec_receive_frame(w, env)
    IN IF f.w.crashed
       THEN [w |-> f.w, ret |-> FALSE]
       ELSE IF f.ret = 0
       THEN LET w1 == [f.w EXCEPT !.vc.m_last_pts = f.pts]
                w2 == sws_scale(w1, env)
            IN [w |-> [w2 EXCEPT !.dst_pts = f.pts], ret |-> ~w2.crashed]
       ELSE [w |-> f.w, ret |-> FALSE]

receiveAndConvert(w, env) ==
    LET f == avcodec_receive_frame(w, env)
    IN IF f.w.crashed
       THEN [w |-> f.w, ret |-> FALSE]
       ELSE IF f.ret = 0
       THEN LET w1 == [f.w EXCEPT !.vc.m_frame_count = @ + 1,
                                  !.vc.m_last_pts = f.pts]
                w2 == sws_scale(w1, env)
            IN [w |-> [w2 EXCEPT !.dst_pts = f.pts], ret |-> ~w2.crashed]
       ELSE [w |-> f.w, ret |-> FALSE]

\* lines 292-298: the end-of-stream signal, sent when m_flush_pending is
\* not set yet; the result of avcodec_send_packet is not looked at.  And
\* the same block starting the file over when the flag is set already,
\* and the same block setting the flag without sending the signal.
sendFlushOnce_skipped(w, env) == [w EXCEPT !.vc.m_flush_pending = TRUE]

sendFlushOnce_rewind(w, env) ==
    IF ~w.vc.m_flush_pending
    THEN avcodec_send_packet([w EXCEPT !.vc.m_flush_pending = TRUE],
                             NullPacket, env).w
    ELSE [w EXCEPT !.vc.m_flush_pending = FALSE, !.lib.pos = 0,
                   !.lib.draining = FALSE]

sendFlushOnce(w, env) ==
    IF ~w.vc.m_flush_pending
    THEN avcodec_send_packet([w EXCEPT !.vc.m_flush_pending = TRUE],
                             NullPacket, env).w
    ELSE w

(* VideoCapture::readFrameDirect.  One pass through the body of the      *)
(* for (;;) loop is [w, done, ret]: done when the pass reached a break,   *)
(* ret the result then.  And the same pass going on to the next unit      *)
(* after a rejected one.                                                  *)

readFrameDirectIter_retry(w, env) ==
    LET r == av_read_frame(w)
    IN IF r.ret < 0
       THEN LET c == receiveAndConvert(sendFlushOnce(r.w, env), env)
            IN [w |-> c.w, done |-> TRUE, ret |-> c.ret]
       ELSE IF r.pkt.stream_index = r.w.vc.m_video_stream_index
       THEN LET s == avcodec_send_packet(r.w, r.pkt, env)
            IN IF s.ret < 0
               THEN [w |-> s.w, done |-> FALSE, ret |-> FALSE]
               ELSE LET c == receiveAndConvert(s.w, env)
                    IN [w |-> c.w, done |-> c.ret \/ c.w.crashed, ret |-> c.ret]
       ELSE [w |-> r.w, done |-> FALSE, ret |-> FALSE]

\* lines 286-332
readFrameDirectIter(w, env) ==
    LET r == av_read_frame(w)
    IN IF r.ret < 0
       THEN LET c == receiveAndConvert(sendFlushOnce(r.w, env), env)
            IN [w |-> c.w, done |-> TRUE, ret |-> c.ret]
       ELSE IF r.pkt.stream_index = r.w.vc.m_video_stream_index
       THEN LET s == avcodec_send_packet(r.w, r.pkt, env)
            IN IF s.ret < 0
               THEN [w |-> s.w, done |-> TRUE, ret |-> FALSE]
               ELSE LET c == receiveAndConvert(s.w, env)
                    IN [w |-> c.w, done |-> c.ret \/ c.w.crashed, ret |-> c.ret]
       ELSE [w |-> r.w, done |-> FALSE, ret |-> FALSE]

\* lines 284-333: the passes of the loop up to the first break
RECURSIVE readFrameDirectLoop(_, _)
readFrameDirectLoop(w, env) ==
    Once({IF it.done THEN [w |-> it.w, ret |-> it.ret]
                     ELSE readFrameDirectLoop(it.w, env) :
            it \in {readFrameDirectIter(w, env)}})

\* lines 270-282: the checks and the packet allocation before the loop
readFrameDirectEntry(w, env) ==
    IF ~isOpened(w.vc) \/ ~env.dst
    THEN [w |-> w, done |-> TRUE, ret |-> FALSE]
    ELSE [w |-> Emit(w, "av_packet_alloc"), done |-> ~env.pkt_alloc, ret |-> FALSE]

readFrameDirect(w, env) ==
    Once({IF e.done THEN [w |-> e.w, ret |-> FALSE]
                    ELSE readFrameDirectLoop(e.w, env) :
            e \in {readFrameDirectEntry(w, env)}})

(* VideoCapture::readFrameFiltered, in the same parts *)

\* lines 410-419 and 454-464: push the decoded picture into the chain and
\* try to pull one out; got is TRUE when a picture reached dst_frame.  And
\* the same steps with a chain that forgets the picture it was pushed when
\* the pull yields nothing.
pushAndPull_forget(w, pts, env) ==
    LET a == av_buffersrc_add_frame(w, pts, env)
    IN IF a.ret >= 0
       THEN LET g == av_buffersink_get_frame(a.w, env)
            IN IF g.ret >= 0
               THEN [w |-> [g.w EXCEPT !.dst_pts = g.pts], got |-> TRUE]
               ELSE [w |-> [g.w EXCEPT !.lib.filt_buf = w.lib.filt_buf],
                     got |-> FALSE]
       ELSE [w |-> a.w, got |-> FALSE]

pushAndPull(w, pts, env) ==
    LET a == av_buffersrc_add_frame(w, pts, env)
    IN IF a.ret >= 0
       THEN LET g == av_buffersink_get_frame(a.w, env)
            IN IF g.ret >= 0
               THEN [w |-> [g.w EXCEPT !.dst_pts = g.pts], got |-> TRUE]
               ELSE [w |-> g.w, got |-> FALSE]
       ELSE [w |-> a.w, got |-> FALSE]

\* lines 392-472
readFrameFilteredIter(w, env) ==
    LET r == av_read_frame(w)
        \* lines 436-472, reached with the packet of this pass
        streamFilter(w0) ==
            IF r.pkt.stream_index = w0.vc.m_video_stream_index
            THEN LET s == avcodec_send_packet(w0, r.pkt, env)
                 IN IF s.ret < 0
                    THEN [w |-> s.w, done |-> TRUE, ret |-> FALSE]
                    ELSE LET f == avcodec_receive_frame(s.w, env)
                         IN IF f.w.crashed
                            THEN [w |-> f.w, done |-> TRUE, ret |-> FALSE]
                            ELSE IF f.ret = 0
                            THEN LET p == pushAndPull(f.w, f.pts, env)
                                 IN [w |-> p.w, done |-> p.got, ret |-> p.got]
                            ELSE [w |-> f.w, done |-> FALSE, ret |-> FALSE]
            ELSE [w |-> w0, done |-> FALSE, ret |-> FALSE]
    IN IF r.ret < 0
       THEN LET w1 == sendFlushOnce(r.w, env)
                f == avcodec_receive_frame(w1, env)
            IN IF f.w.crashed
               THEN [w |-> f.w, done |-> TRUE, ret |-> FALSE]
               ELSE IF f.ret = 0
               THEN LET p == pushAndPull(f.w, f.pts, env)
                    IN IF p.got
                       THEN [w |-> p.w, done |-> TRUE, ret |-> TRUE]
                       ELSE streamFilter(p.w)
               ELSE LET c == av_buffersrc_close(f.w)
                        g == av_buffersink_get_frame(c.w, env)
                    IN IF c.ret >= 0
                       THEN [w |-> [g.w EXCEPT !.dst_pts = g.pts],
                             done |-> TRUE, ret |-> g.ret >= 0]
                       ELSE [w |-> c.w, done |-> TRUE, ret |-> FALSE]
       ELSE streamFilter(r.w)

\* lines 390-473: the passes of the loop up to the first break
RECURSIVE readFrameFilteredLoop(_, _)
readFrameFilteredLoop(w, env) ==
    Once({IF it.done THEN [w |-> it.w, ret |-> it.ret]
                     ELSE readFrameFilteredLoop(it.w, env) :
            it \in {readFrameFilteredIter(w, env)}})

\* lines 376-388: the checks and the packet allocation before the loop
readFrameFilteredEntry(w, env) ==
    IF ~isOpened(w.vc) \/ ~w.vc.m_filter_graph \/ ~env.dst
    THEN [w |-> w, done |-> TRUE, ret |-> FALSE]
    ELSE [w |-> Emit(w, "av_packet_alloc"), done |-> ~env.pkt_alloc, ret |-> FALSE]

readFrameFiltered(w, env) ==
    Once({IF e.done THEN [w |-> e.w, ret |-> FALSE]
                    ELSE readFrameFilteredLoop(e.w, env) :
            e \in {readFrameFilteredEntry(w, env)}})

(* VideoCapture::readFrame, a readFrame that falls back to the Direct     *)
(* implementation for the calls after it, and a readFrame that closes the  *)
(* session when it has no frame to return                                  *)

readFrame_closing(w, env) ==
    LET r == IF w.vc.m_readFrameImpl = "readFrameFiltered"
             THEN readFrameFiltered(w, env)
             ELSE readFrameDirect(w, env)
    IN IF r.ret THEN r ELSE [w |-> close(r.w), ret |-> FALSE]


readFrame_fallback(w, env) ==
    LET r == IF w.vc.m_readFrameImpl = "readFrameFiltered"
             THEN readFrameFiltered(w, env)
             ELSE readFrameDirect(w, env)
    IN [r EXCEPT !.w.vc.m_readFrameImpl = "readFrameDirect"]

readFrame(w, env) ==
    IF w.vc.m_readFrameImpl = "readFrameFiltered"
    THEN readFrameFiltered(w, env)
    ELSE readFrameDirect(w, env)

---------------------------------------------------------------------------
(* The state machine *)

\* Nothing is left to deliver: the demuxer is at the end of its file and
\* neither the decoder nor the filter chain holds a picture.
Exhausted(l) ==
    /\ l.pos = Len(l.file.pkts)
    /\ l.dec_buf = <<>>
    /\ l.filt_buf = <<>>

\* The sink of the filter chain has a picture ready to be pulled.
SinkReady(l) ==
    /\ l.graph_live
    /\ IF l.filt_eof THEN Len(l.filt_buf) > 0 ELSE Len(l.filt_buf) > l.fdelay

(* ResizeCapture: the subclass that builds its own filter chain after the *)
(* base class has opened the file. Its members are w.vc.resize; the base   *)
(* class's chain members stay null in it (VideoCapture::open is called    *)
(* with no target size).                                                   *)

\* ResizeCapture.cpp lines 157-284: [w, ret]
ResizeCapture_initFilterGraph(w, fd, failAt) ==
    IF failAt = "graph_alloc"
    THEN [w |-> Emit(w, "avfilter_graph_alloc"), ret |-> FALSE]
    ELSE
    LET w1 == [Emit(w, "avfilter_graph_alloc") EXCEPT
                  !.vc.resize.m_filter_graph = TRUE,
                  !.lib = acquire(@, "graph_live"),
                  !.lib.filt_buf = <<>>, !.lib.filt_eof = FALSE,
                  !.lib.filt_eos = 0, !.lib.late_push = FALSE,
                  !.lib.fdelay = fd]
    IN IF failAt = "create_src"
       THEN [w |-> w1, ret |-> FALSE]
       ELSE
       LET w2 == [w1 EXCEPT !.vc.resize.m_buffersrc_ctx = TRUE]
       IN IF failAt = "create_sink"
          THEN [w |-> w2, ret |-> FALSE]
          ELSE
          LET w3 == [w2 EXCEPT !.vc.resize.m_buffersink_ctx = TRUE]
          IN IF \/ failAt = "graph_build"
                \/ ~chainConfigurable(w.vc.m_width, w.vc.m_height,
                                      w.vc.resize.m_target_width,
                                      w.vc.resize.m_target_height)
             THEN [w |-> w3, ret |-> FALSE]
             ELSE [w |-> [Emit(w3, "avfilter_graph_config") EXCEPT
                             !.lib.filt_out =
                                 padOutput(
                                     scaleOutput(w.vc.m_width, w.vc.m_height,
                                                 w.vc.resize.m_target_width,
                                                 w.vc.resize.m_target_height),
                                     w.vc.resize.m_target_width,
                                     w.vc.resize.m_target_height)],
                   ret |-> TRUE]

\* ResizeCapture.cpp lines 35-49: [w, ret]; the base class's open is
\* called with its default targets, failAt is the library call that fails
\* in either of the two
ResizeCapture_open(w, file, fd, target_width, target_height, failAt) ==
    Once({IF b.ret
          THEN ResizeCapture_initFilterGraph(b.w, fd, failAt)
          ELSE [w |-> b.w, ret |-> FALSE] :
            b \in {open([w EXCEPT
                            !.vc.resize.m_target_width = target_width,
                            !.vc.resize.m_target_height = target_height],
                        file, 0, 0, 0,
                        IF failAt \in OpenSteps THEN failAt ELSE "none")}})

\* ResizeCapture.cpp lines 17-28, followed by the base class's destructor
ResizeCapture_destructor(w) ==
    destructor(IF w.vc.resize.m_filter_graph
               THEN [avfilter_graph_free(w) EXCEPT
                        !.vc.resize.m_filter_graph = FALSE,
                        !.vc.resize.m_buffersrc_ctx = FALSE,
                        !.vc.resize.m_buffersink_ctx = FALSE]
               ELSE w)

---------------------------------------------------------------------------
World == [vc |-> vc, lib |-> lib, log |-> <<>>, crashed |-> FALSE,
          dst_pts |-> AV_NOPTS_VALUE, dst_size |-> <<0, 0>>]

\* What the last operation started from: the operation before it and its
\* result, whether the session was opened, and whether it had been read
\* from (a frame delivered, or the input exhausted).
Pre ==
    [op |-> last.op, ret |-> last.ret, opened |-> isOpened(vc),
     used |-> vc.m_flush_pending \/ hist.out # <<>>,
     impl |-> vc.m_readFrameImpl]

\* The same for open: of the operation before, only whether it was a close.
PreOpen ==
    [op |-> IF last.op = "close" THEN "close" ELSE "none", ret |-> TRUE,
     opened |-> isOpened(vc), used |-> vc.m_flush_pending \/ hist.out # <<>>,
     impl |-> vc.m_readFrameImpl]

NoPre ==
    [op |-> "none", ret |-> TRUE, opened |-> FALSE, used |-> FALSE,
     impl |-> "readFrameDirect"]

Init ==
    /\ vc = InitVC
    /\ lib = InitLib
    /\ last = [op |-> "construct", ret |-> TRUE, failAt |-> "none", prop |-> -1,
               valid |-> TRUE, rejected |-> FALSE, val |-> Rat(0, 1), size |-> <<0, 0>>, pre |-> NoPre]
    /\ hist = InitHist
    /\ life = "live"

\* The files an open that fails is tried on.
ProbeFiles == {f \in Files : f.vidx = 0 /\ f.delay = 0}

\* The inputs of open: every file with every pair of targets when no
\* library call fails (the chain's delay is drawn only when a chain gets
\* configured); a failing call of open() itself with no target or both
\* targets; a failing chain step with both targets.
OpenInputs ==
    {i \in [file : Files, fd : 0..MaxFilterDelay, tw : Targets, th : Targets,
            failAt : {"none"}] :
        i.fd > 0 => (i.tw > 0 /\ i.th > 0)}
    \cup
    {i \in [file : ProbeFiles, fd : {0}, tw : Targets, th : Targets,
            failAt : OpenSteps \cup FilterSteps] :
        /\ i.tw = i.th
        /\ i.failAt \in FilterSteps => i.tw > 0}

\* The inputs of open in the specification that also queries the object
\* (get, isOpened): the files whose video stream is stream 0 with a decoder
\* that holds nothing back, every pair of targets, and one failing call of
\* each kind of outcome: nothing acquired, the decoder acquired but not
\* opened, the filter chain not built.
QueryOpenInputs ==
    {i \in [file : ProbeFiles, fd : {0}, tw : Targets, th : Targets,
            failAt : {"none", "avformat_open_input", "avcodec_open2",
                      "graph_build"}] :
        i.failAt \in FilterSteps => (i.tw > 0 /\ i.th > 0)}

\* The inputs of open in the specification of the picture sizes: a file
\* of one video unit of every width and height up to MaxDim, every pair of
\* targets up to MaxDim, no failing library call.
GeomOpenInputs ==
    [file : [pkts : {<<"v">>}, vidx : {0}, delay : {0}, width : 1..MaxDim,
             height : 1..MaxDim, pix_fmt : {"yuv420p"}, meta : {FullMeta}],
     fd : {0}, tw : 0..MaxDim, th : 0..MaxDim, failAt : {"none"}]

OpenWith(inputs) ==
    /\ life \in {"live", "scoped"}
    /\ \E i \in inputs :
          \E r \in {open(World, i.file, i.fd, i.tw, i.th, i.failAt)} :
             /\ vc' = r.w.vc
             /\ lib' = r.w.lib
             /\ last' = [op |-> "open", ret |-> r.ret, failAt |-> i.failAt, prop |-> -1,
                         valid |-> TRUE, rejected |-> FALSE, val |-> Rat(0, 1), size |-> <<0, 0>>, pre |-> PreOpen]
             /\ hist' = [open |-> r.ret, clean |-> TRUE, out |-> <<>>,
                         impl |-> r.w.vc.m_readFrameImpl,
                         eof |-> FALSE, past_eof |-> FALSE]
             /\ life' = life

Open == OpenWith(OpenInputs)

OpenQuery == OpenWith(QueryOpenInputs)

OpenGeom == OpenWith(GeomOpenInputs)

Close ==
    /\ life = "live"
    /\ \E w \in {close(World)} :
          /\ vc' = w.vc
          /\ lib' = w.lib
          /\ last' = [op |-> "close", ret |-> TRUE, failAt |-> "none", prop |-> -1,
                      valid |-> TRUE, rejected |-> FALSE, val |-> Rat(0, 1), size |-> <<0, 0>>, pre |-> Pre]
          /\ hist' = InitHist
          /\ life' = "live"

ReadFrame ==
    /\ life \in {"live", "scoped"}
    /\ \E env \in ReadEnvs :
          \E r \in {readFrame(World, env)},
             ok \in {env.dst /\ env.pkt_alloc /\ ~env.reject /\ env.chain = "ok"} :
             /\ vc' = r.w.vc
             /\ lib' = r.w.lib
             /\ last' = [op |-> "readFrame", ret |-> r.ret, failAt |-> "none", prop |-> -1,
                         valid |-> ok,
                         rejected |-> env.reject /\ (\E k \in 1..Len(r.w.log) :
                                                         r.w.log[k] = "send_packet"), val |-> Rat(0, 1), size |-> r.w.dst_size,
                         pre |-> NoPre]
             /\ hist' = [hist EXCEPT
                            !.clean = @ /\ ok,
                            !.out = IF r.ret THEN Append(@, r.w.dst_pts) ELSE @,
                            !.past_eof = @ \/ hist.eof,
                            !.eof = @ \/ (~r.ret /\ Exhausted(r.w.lib))]
             /\ life' = IF r.w.crashed THEN "crashed" ELSE life

Destroy ==
    /\ life = "live"
    /\ \E w \in {destructor(World)} :
          /\ vc' = w.vc
          /\ lib' = w.lib
          /\ last' = [op |-> "destructor", ret |-> TRUE, failAt |-> "none", prop |-> -1,
                      valid |-> TRUE, rejected |-> FALSE, val |-> Rat(0, 1), size |-> <<0, 0>>, pre |-> Pre]
          /\ hist' = InitHist
          /\ life' = "destroyed"

Get ==
    /\ life = "live"
    /\ \E propId \in PropIds :
          /\ last' = [op |-> "get", ret |-> TRUE, failAt |-> "none",
                      prop |-> propId, valid |-> TRUE, rejected |-> FALSE,
                      val |-> get(vc, lib, propId), size |-> <<0, 0>>,
                      pre |-> NoPre]
          /\ UNCHANGED <<vc, lib, hist, life>>

IsOpened ==
    /\ life = "live"
    /\ last' = [op |-> "isOpened", ret |-> isOpened(vc), failAt |-> "none",
                prop |-> -1, valid |-> TRUE, rejected |-> FALSE, val |-> Rat(0, 1), size |-> <<0, 0>>, pre |-> NoPre]
    /\ UNCHANGED <<vc, lib, hist, life>>

\* VideoCapture(): a new object once the old one is gone (destroyed, or
\* lost with the crashed process).
Construct ==
    /\ life # "live"
    /\ vc' = InitVC
    /\ lib' = InitLib
    /\ last' = [op |-> "construct", ret |-> TRUE, failAt |-> "none", prop |-> -1,
                valid |-> TRUE, rejected |-> FALSE, val |-> Rat(0, 1), size |-> <<0, 0>>, pre |-> NoPre]
    /\ hist' = InitHist
    /\ life' = "live"

Next == Open \/ Close \/ ReadFrame \/ Destroy \/ Construct

Spec == Init /\ [][Next]_vars

\* A ResizeCapture object: opened with both targets on the files whose
\* video stream is stream 0, with every library call of the two open
\* functions failing in turn; closed through the base class's close();
\* destroyed and constructed anew.
ResizeOpenInputs ==
    [file : ProbeFiles, fd : {0}, tw : {TargetSize}, th : {TargetSize},
     failAt : FailPoints]

ResizeOpen ==
    /\ life = "live"
    /\ \E i \in ResizeOpenInputs :
          \E r \in {ResizeCapture_open(World, i.file, i.fd, i.tw, i.th,
                                       i.failAt)} :
             /\ vc' = r.w.vc
             /\ lib' = r.w.lib
             /\ last' = [op |-> "ResizeCapture::open", ret |-> r.ret,
                         failAt |-> i.failAt, prop |-> -1, valid |-> TRUE,
                         rejected |-> FALSE, val |-> Rat(0, 1),
                         size |-> <<0, 0>>, pre |-> PreOpen]
             /\ hist' = [open |-> r.ret, clean |-> TRUE, out |-> <<>>,
                         impl |-> r.w.vc.m_readFrameImpl,
                         eof |-> FALSE, past_eof |-> FALSE]
             /\ life' = life

ResizeDestroy ==
    /\ life = "live"
    /\ \E w \in {ResizeCapture_destructor(World)} :
          /\ vc' = w.vc
          /\ lib' = w.lib
          /\ last' = [op |-> "destructor", ret |-> TRUE, failAt |-> "none",
                      prop |-> -1, valid |-> TRUE, rejected |-> FALSE,
                      val |-> Rat(0, 1), size |-> <<0, 0>>, pre |-> Pre]
          /\ hist' = InitHist
          /\ life' = "destroyed"

NextResize == ResizeOpen \/ Close \/ ResizeDestroy \/ Construct

SpecResize == Init /\ [][NextResize]_vars

\* The inputs of open in the specification of the stream properties: the
\* files of video units only, whose container reports any part of the
\* stream's frame count, duration and frame rates; no target, no failing
\* library call.
MetaOpenInputs ==
    [file : [pkts : {q \in PktSeqs : \A k \in 1..Len(q) : q[k] = "v"},
             vidx : {0}, delay : {0}, width : {SrcWidth},
             height : {SrcHeight}, pix_fmt : {"yuv420p"}, meta : Metas],
     fd : {0}, tw : {0}, th : {0}, failAt : {"none"}]

OpenMeta == OpenWith(MetaOpenInputs)

\* The stream properties of a session queried between its reads.
NextMeta == OpenMeta \/ ReadFrame \/ Get \/ Close

SpecMeta == Init /\ [][NextMeta]_vars

\* The object used through its whole public interface, the const member
\* functions included.
NextQuery ==
    OpenQuery \/ Close \/ ReadFrame \/ Get \/ IsOpened \/ Destroy \/ Construct

SpecQuery == Init /\ [][NextQuery]_vars

\* The object opened on sources and with targets of every small size.
NextGeom == OpenGeom \/ Close \/ ReadFrame \/ Destroy \/ Construct

SpecGeom == Init /\ [][NextGeom]_vars

\* The object used as a scoped resource ("with VideoCapture() as cap:"):
\* life is "scoped" from __enter__ to __exit__; the body of the scope opens
\* and reads, and is left after any of its steps (its end, an early
\* return, or an exception raised between two calls).
Enter ==
    /\ life = "live"
    /\ \E w \in {enterScope(World)} :
          /\ vc' = w.vc
          /\ lib' = w.lib
    /\ last' = [op |-> "enter", ret |-> TRUE, failAt |-> "none", prop |-> -1,
                valid |-> TRUE, rejected |-> FALSE, val |-> Rat(0, 1),
                size |-> <<0, 0>>, pre |-> NoPre]
    /\ life' = "scoped"
    /\ UNCHANGED hist

Exit ==
    /\ life = "scoped"
    /\ \E w \in {exitScope(World)} :
          /\ vc' = w.vc
          /\ lib' = w.lib
    /\ last' = [op |-> "exit", ret |-> TRUE, failAt |-> "none", prop |-> -1,
                valid |-> TRUE, rejected |-> FALSE, val |-> Rat(0, 1),
                size |-> <<0, 0>>, pre |-> Pre]
    /\ hist' = InitHist
    /\ life' = "live"

NextScope == OpenQuery \/ ReadFrame \/ Enter \/ Exit

SpecScope == Init /\ [][NextScope]_vars

\* Sessions whose input fails before its end (a read error of the file or
\* the network): from then on av_read_frame fails for a cause other than
\* the end of the file.  The decoders of the files opened here hold back
\* up to DeepDecDelay pictures.
FaultOpenInputs ==
    {i \in [file : [pkts : PktSeqs, vidx : {0, 1}, delay : 0..DeepDecDelay,
                    width : {SrcWidth}, height : {SrcHeight},
                    pix_fmt : {"yuv420p"}, meta : {FullMeta}],
            fd : 0..MaxFilterDelay, tw : Targets, th : Targets,
            failAt : {"none"}] :
        /\ i.tw = i.th
        /\ i.fd > 0 => i.tw > 0}

OpenFault == last.op = "construct" /\ OpenWith(FaultOpenInputs)

InputFails ==
    /\ life = "live"
    /\ lib.fmt_live /\ ~lib.io_error
    /\ lib' = [lib EXCEPT !.io_error = TRUE]
    /\ last' = [op |-> "inputFails", ret |-> TRUE, failAt |-> "none", prop |-> -1,
                valid |-> TRUE, rejected |-> FALSE, val |-> Rat(0, 1),
                size |-> <<0, 0>>, pre |-> NoPre]
    /\ UNCHANGED <<vc, hist, life>>

NextFault == OpenFault \/ ReadFrame \/ InputFails

SpecFault == Init /\ [][NextFault]_vars

\* The read calls of one session, one pass of the loop at a time: life is
\* "reading" while the calling thread is inside the for (;;) loop.
\* BeginRead is the part of the call before the loop, LoopPass one pass
\* through the loop's body; what fails is drawn anew for every pass.
readFrameEntry(w, env) ==
    IF w.vc.m_readFrameImpl = "readFrameFiltered"
    THEN readFrameFilteredEntry(w, env)
    ELSE readFrameDirectEntry(w, env)

readFrameIter(w, env) ==
    IF w.vc.m_readFrameImpl = "readFrameFiltered"
    THEN readFrameFilteredIter(w, env)
    ELSE readFrameDirectIter(w, env)

BeginRead ==
    /\ life = "live"
    /\ \E env \in {e \in ReadEnvs : ~e.reject /\ e.ub = "error" /\ e.chain = "ok"} :
          \E e \in {readFrameEntry(World, env)} :
             /\ vc' = e.w.vc
             /\ lib' = e.w.lib
             /\ last' = IF e.done
                        THEN [op |-> "readFrame", ret |-> FALSE, failAt |-> "none",
                              prop |-> -1, valid |-> FALSE, rejected |-> FALSE,
                              val |-> Rat(0, 1), size |-> <<0, 0>>, pre |-> NoPre]
                        ELSE last
             /\ hist' = IF e.done
                        THEN [hist EXCEPT !.clean = FALSE,
                                          !.past_eof = @ \/ hist.eof,
                                          !.eof = @ \/ Exhausted(lib)]
                        ELSE hist
             /\ life' = IF e.done THEN "live" ELSE "reading"

LoopPass ==
    /\ life = "reading"
    /\ \E env \in {e \in ReadEnvs : e.dst /\ e.pkt_alloc} :
          \E it \in {readFrameIter(World, env)},
             ok \in {~env.reject /\ env.chain = "ok"} :
             /\ vc' = it.w.vc
             /\ lib' = it.w.lib
             /\ last' = IF it.done
                        THEN [op |-> "readFrame", ret |-> it.ret, failAt |-> "none",
                              prop |-> -1, valid |-> hist.clean /\ ok,
                              rejected |-> FALSE, val |-> Rat(0, 1),
                              size |-> it.w.dst_size, pre |-> NoPre]
                        ELSE last
             /\ hist' = [hist EXCEPT
                            !.clean = @ /\ ok,
                            !.out = IF it.done /\ it.ret
                                    THEN Append(@, it.w.dst_pts) ELSE @,
                            !.past_eof = @ \/ (it.done /\ hist.eof),
                            !.eof = @ \/ (it.done /\ ~it.ret /\ Exhausted(it.w.lib))]
             /\ life' = IF it.w.crashed THEN "crashed"
                        ELSE IF it.done THEN "live" ELSE "reading"

\* open on an object that has just been constructed
OpenFresh == last.op = "construct" /\ Open

NextLoop == OpenFresh \/ BeginRead \/ LoopPass

SpecLoop == Init /\ [][NextLoop]_vars

---------------------------------------------------------------------------
(* Claims *)

\* A session in use: opened by a successful open and not closed since,
\* read only with a non-null frame, with no allocation failure and no
\* rejected unit.
CleanSession == life = "live" /\ hist.open /\ hist.clean

Strategy == IF vc.m_readFrameImpl = "readFrameFiltered" THEN "Filtered" ELSE "Direct"

\* C1: for a source whose decoder yields N pictures, the readFrame calls of
\* a freshly opened session return true exactly N times and then false:
\* never more than N true results, and no false result before the N-th
\* true one; in both strategies, also when the decoder or the filter chain
\* holds pictures back until the end-of-stream flush.
C1_ExactlyNThenFalse ==
    CleanSession =>
        /\ Len(hist.out) <= NumPictures(lib.file)
        /\ (last.op = "readFrame" /\ ~last.ret) =>
               Len(hist.out) = NumPictures(lib.file)

\* C2: after an open that returned false, whichever step failed,
\* isOpened() is false.
C2_FailedOpenNotOpened ==
    (last.op = "open" /\ ~last.ret) => ~isOpened(vc)

NoHandleHeld ==
    /\ ~vc.m_fmt_ctx /\ ~vc.m_codec_ctx /\ ~vc.m_yuv_frame /\ ~vc.m_sws_ctx
    /\ ~vc.m_filter_graph /\ ~vc.m_buffersrc_ctx /\ ~vc.m_buffersink_ctx
    /\ ~lib.fmt_live /\ ~lib.codec_live /\ ~lib.frame_live /\ ~lib.sws_live
    /\ ~lib.graph_live

\* C3: when open returns false, the demuxer, the decoder, the picture
\* buffer, the conversion context and the filter chain are all released.
C3_FailedOpenHoldsNothing ==
    (last.op = "open" /\ ~last.ret) => NoHandleHeld

\* the fields close() resets under "Reset properties" (lines 167-175)
PositionStateInitial ==
    /\ vc.m_video_stream_index = InitVC.m_video_stream_index
    /\ vc.m_width = InitVC.m_width
    /\ vc.m_height = InitVC.m_height
    /\ vc.m_src_pix_fmt = InitVC.m_src_pix_fmt
    /\ vc.m_flush_pending = InitVC.m_flush_pending
    /\ vc.m_frame_count = InitVC.m_frame_count
    /\ vc.m_last_pts = InitVC.m_last_pts
    /\ vc.m_target_width = InitVC.m_target_width
    /\ vc.m_target_height = InitVC.m_target_height

C5_CounterStepsWithResult ==
    [][(last'.op = "readFrame" /\ life' = "live") =>
          vc'.m_frame_count =
              vc.m_frame_count + (IF last'.ret THEN 1 ELSE 0)]_vars

\* C6: right after every successful open, also on a session that has
\* produced frames or reached end-of-stream, the frame counter is 0, the
\* last timestamp is unset and the end-of-stream flag is cleared.
C6_OpenResetsPosition ==
    (last.op = "open" /\ last.ret) =>
        /\ vc.m_frame_count = 0
        /\ vc.m_last_pts = AV_NOPTS_VALUE
        /\ ~vc.m_flush_pending

\* C6 witness: a successful open on a session that had been read from.
C6_Witness == last.op = "open" /\ last.ret /\ last.pre.used

\* C7: after a readFrame call that returned true, in both strategies, the
\* last timestamp is the presentation timestamp of the picture delivered
\* by that call.
C7_LastPtsIsDelivered ==
    (last.op = "readFrame" /\ last.ret /\ life = "live") =>
        vc.m_last_pts = hist.out[Len(hist.out)]

Before(l, a, b) ==
    \A i, j \in 1..Len(l) : (l[i] = a /\ l[j] = b) => i < j

\* C8: every execution of close releases the filter chain (if present)
\* before the decoder, and the decoder before the demuxer.
C8_ReleaseOrder ==
    life = "live" =>
        LET l == close(World).log
        IN /\ Before(l, "avfilter_graph_free", "avcodec_free_context")
           /\ Before(l, "avcodec_free_context", "avformat_close_input")

C10_ClosedIsNeverOpened ==
    last.op = "close" => vc = InitVC


\* C11: open releases the previous session before it acquires anything:
\* no demuxer, decoder, picture buffer, conversion context or filter chain
\* is ever created while the one held before is still allocated, so the
\* session never holds two of a kind.
C11_OpenClosesPriorFirst == ~lib.leaked

\* C11 witness: a successful Filtered open on a session that was opened
\* with the Filtered strategy.
C11_Witness ==
    /\ last.op = "open" /\ last.ret /\ last.pre.opened
    /\ last.pre.impl = "readFrameFiltered" /\ vc.m_filter_graph

\* C12: the strategy a successful open selects depends on its target
\* arguments only: Filtered exactly when both are positive, Direct
\* otherwise, whatever the strategy of the session before.
C12_StrategyFromTargets ==
    (last.op = "open" /\ last.ret) =>
        (Strategy = "Filtered" <=>
            (vc.m_target_width > 0 /\ vc.m_target_height > 0))

\* C12 witness: a successful open with exactly one positive target on an
\* object whose session before was Filtered.
C12_Witness ==
    /\ last.op = "open" /\ last.ret
    /\ last.pre.impl = "readFrameFiltered"
    /\ vc.m_target_width > 0 /\ vc.m_target_height = 0
    /\ Strategy = "Direct"

\* C13: from a successful open to the next close or open, the read
\* implementation readFrame dispatches to is the one that open selected:
\* no readFrame, get or isOpened call changes it.
C13_StrategyFixedInSession ==
    (life = "live" /\ hist.open) => vc.m_readFrameImpl = hist.impl

\* C13 witness: a Filtered session that has delivered a frame and was
\* then queried with get.
C13_Witness ==
    /\ life = "live" /\ hist.open /\ hist.impl = "readFrameFiltered"
    /\ hist.out # <<>> /\ last.op = "get"

\* C14: in every session opened with the Direct strategy (one target or
\* both not positive), the output size the session reports and the read
\* path allocates, outputWidth() x outputHeight(), is the width and height
\* of the source stream.
C14_DirectOutputIsSource ==
    (life = "live" /\ hist.open /\ Strategy = "Direct") =>
        /\ outputWidth(vc) = lib.file.width
        /\ outputHeight(vc) = lib.file.height

PipelineCalls ==
    {"av_read_frame", "send_packet", "send_eos", "send_blank",
     "avcodec_receive_frame", "sws_scale", "buffersrc_add_frame",
     "buffersrc_eos", "buffersink_get_frame"}

InLog(l, calls) == \E i \in 1..Len(l) : l[i] \in calls

\* C16: readFrame on a session that is not open (never opened, closed, or
\* whose last open failed) returns false at once: nothing is read from
\* the demuxer, nothing is sent to the decoder or the filter chain, and
\* no field of the session changes.
C16_ReadOnClosedDoesNothing ==
    (life = "live" /\ ~hist.open) =>
        \A env \in ReadEnvs :
            LET r == readFrame(World, env)
            IN /\ ~r.ret
               /\ ~r.w.crashed
               /\ ~InLog(r.w.log, PipelineCalls)
               /\ r.w.vc = vc
               /\ r.w.lib = lib

\* C17: end-of-stream is sticky: once a readFrame call has returned false
\* with the input, the decoder and the filter chain all exhausted, every
\* later readFrame call of the session returns false.
C17_EofSticky ==
    (life = "live" /\ hist.past_eof /\ last.op = "readFrame") => ~last.ret

\* C17 witness: a readFrame call on a Filtered session that had delivered
\* a frame and had reported end-of-stream before.
C17_Witness ==
    /\ life = "live" /\ hist.open /\ hist.past_eof /\ last.op = "readFrame"
    /\ hist.out # <<>> /\ Strategy = "Filtered"

\* C18: get returns -1 for every property id other than the eight
\* supported ones in every state of the session, and for every property
\* id when the session is not open.
C18_GetSentinel ==
    (last.op = "get" /\ (last.prop \notin SupportedProps \/ ~hist.open)) =>
        RatEq(last.val, Rat(-1, 1))

\* C19: on an opened session get(frame-width) and get(frame-height)
\* return the width and height of the source stream, also in a Filtered
\* session whose target has another size.
C19_GetSizeIsSource ==
    (last.op = "get" /\ hist.open) =>
        /\ last.prop = CAP_PROP_FRAME_WIDTH =>
               RatEq(last.val, Rat(lib.file.width, 1))
        /\ last.prop = CAP_PROP_FRAME_HEIGHT =>
               RatEq(last.val, Rat(lib.file.height, 1))

\* C19 witness: get(frame-width) on a Filtered session whose target width
\* is not the source width.
C19_Witness ==
    /\ last.op = "get" /\ hist.open /\ last.prop = CAP_PROP_FRAME_WIDTH
    /\ Strategy = "Filtered" /\ vc.m_target_width # lib.file.width

\* C20: in the Filtered strategy a readFrame call made while the sink of
\* the filter chain holds a queued picture takes that picture first: it
\* reads no unit from the demuxer and feeds nothing to the decoder.
C20_SinkDrainedFirst ==
    (life = "live" /\ hist.open /\ Strategy = "Filtered" /\ SinkReady(lib)) =>
        \A env \in {e \in ReadEnvs : e.dst /\ e.pkt_alloc} :
            ~InLog(readFrame(World, env).w.log,
                   {"av_read_frame", "send_packet", "send_eos", "send_blank"})

\* C21: in an opened session, in either strategy, the decoder has been
\* sent the end-of-stream signal exactly once when the exhausted input has
\* been noticed (m_flush_pending is set) and never before: no second
\* end-of-stream signal and no empty packet is ever submitted to it.
C21_DecoderEosOnce ==
    (life = "live" /\ hist.open) =>
        lib.dec_eos = IF vc.m_flush_pending THEN 1 ELSE 0

\* C22: in the Filtered strategy the end-of-stream signal is sent to the
\* filter chain at most once in a session.
C22_ChainEosAtMostOnce ==
    (life = "live" /\ hist.open /\ Strategy = "Filtered") => lib.filt_eos <= 1

\* C23: when the decoder rejects a submitted unit of the selected stream,
\* readFrame returns false in that same call: the rejected submission is
\* the last thing the call does (it polls neither the decoder nor the
\* filter chain afterwards and reads no further unit), and the frame
\* counter and the last timestamp are what they were before the call.
C23_RejectedUnitEndsCall ==
    (life = "live" /\ hist.open) =>
        \A env \in {e \in ReadEnvs : e.dst /\ e.pkt_alloc /\ e.reject} :
            \A r \in {readFrame(World, env)} :
                InLog(r.w.log, {"send_packet"}) =>
                    /\ ~r.ret
                    /\ r.w.log[Len(r.w.log)] = "send_packet"
                    /\ r.w.vc.m_frame_count = vc.m_frame_count
                    /\ r.w.vc.m_last_pts = vc.m_last_pts

\* a readFrame call whose unit the decoder rejected, made while the file
\* still had units to read
C23_Witness ==
    /\ life = "live" /\ hist.open
    /\ last.op = "readFrame" /\ last.rejected /\ ~last.ret
    /\ lib.pos < Len(lib.file.pkts)

\* C24: in the Filtered strategy a failed push of a decoded picture into
\* the filter chain, or a pull that fails with an error other than 'needs
\* more input', makes that readFrame call return false: the failed chain
\* call is the last thing the call does (no further unit is read and the
\* decoded picture is not passed over).
C24_ChainFailureEndsCall ==
    (life = "live" /\ hist.open /\ Strategy = "Filtered") =>
        /\ \A env \in {e \in ReadEnvs : e.chain = "push_fail"} :
              \A r \in {readFrame(World, env)} :
                  InLog(r.w.log, {"buffersrc_add_frame"}) =>
                      /\ ~r.ret
                      /\ r.w.log[Len(r.w.log)] = "buffersrc_add_frame"
        /\ \A env \in {e \in ReadEnvs : e.chain = "pull_fail"} :
              \A r \in {readFrame(World, env)} :
                  InLog(r.w.log, {"buffersink_get_frame"}) =>
                      /\ ~r.ret
                      /\ r.w.log[Len(r.w.log)] = "buffersink_get_frame"

\* the demuxer, decoder and filter-chain handles of the session of w, and
\* whether the objects behind them are allocated
Handles(w) ==
    <<w.vc.m_fmt_ctx, w.vc.m_codec_ctx, w.vc.m_filter_graph,
      w.vc.m_buffersrc_ctx, w.vc.m_buffersink_ctx,
      w.lib.fmt_live, w.lib.codec_live, w.lib.graph_live>>

\* C25: readFrame never closes the session: after any readFrame call on an
\* opened session (a frame returned, a decode or filter failure, or
\* end-of-stream) isOpened() is still true and the demuxer, decoder and
\* filter-chain handles are the ones the session had before the call.
C25_ReadKeepsSessionOpen ==
    (life = "live" /\ hist.open) =>
        \A env \in ReadEnvs :
            \A r \in {readFrame(World, env)} :
                /\ ~r.w.crashed
                /\ isOpened(r.w.vc)
                /\ Handles(r.w) = Handles(World)

\* a Filtered session still opened after a readFrame that reported
\* end-of-stream
C25_Witness ==
    /\ life = "live" /\ hist.open /\ Strategy = "Filtered"
    /\ last.op = "readFrame" /\ ~last.ret /\ hist.eof
    /\ isOpened(vc) /\ vc.m_filter_graph

\* C26: only units whose stream index equals the selected video stream are
\* fed to the decoder: apart from the end-of-stream signal (the null
\* packet), nothing that is not a unit read from the selected stream ever
\* reaches the decoder of an opened session.
C26_OnlySelectedStreamFed ==
    (life = "live" /\ hist.open) => ~lib.dec_foreign

C27_WitnessFailedOpen ==
    /\ last.op = "exit" /\ last.pre.op = "open" /\ ~last.pre.ret
    /\ last.pre.opened

\* C28: in a session in which nothing fails, the frames delivered are the
\* decoder's pictures in the order it emitted them, none skipped and none
\* delivered twice (the i-th frame delivered is the i-th picture), and
\* none dropped: once the demuxer is at its end and neither the decoder
\* nor the filter chain holds a picture, every picture of the file has
\* been delivered.  This covers the normal read phase, the decoder flush
\* and, for Filtered, the flush of the filter chain.
C28_DeliveredInDecoderOrder ==
    CleanSession =>
        /\ Len(hist.out) <= NumPictures(lib.file)
        /\ \A i \in 1..Len(hist.out) : hist.out[i] = PtsOf(i)
        /\ Exhausted(lib) => Len(hist.out) = NumPictures(lib.file)

\* C28 witness: a Filtered session on a file of MaxPkts video units whose
\* decoder and chain both hold pictures back, read to the end
C28_Witness ==
    /\ CleanSession /\ Strategy = "Filtered"
    /\ lib.file.delay > 0 /\ lib.fdelay > 0
    /\ NumPictures(lib.file) = MaxPkts
    /\ Exhausted(lib) /\ Len(hist.out) = MaxPkts

\* the same in a Direct session
C28_WitnessDirect ==
    /\ CleanSession /\ Strategy = "Direct"
    /\ lib.file.delay > 0
    /\ NumPictures(lib.file) = MaxPkts
    /\ Exhausted(lib) /\ Len(hist.out) = MaxPkts

\* what is left for the loop of readFrame to work through: two for every
\* unit the demuxer has not handed out yet, one for every picture the
\* decoder holds
LoopVariant(l) == 2 * (Len(l.file.pkts) - l.pos) + Len(l.dec_buf)

\* C29: every readFrame call terminates: every pass through the loop of
\* either strategy that does not reach a return (a frame, exhaustion, or a
\* failure) makes the natural number LoopVariant smaller, whatever fails in
\* the pass and also in the passes that follow an exhausted demuxer read;
\* so the loop, once entered, returns after at most LoopVariant passes
\* more.
C29_ReadFrameTerminates ==
    [][(life = "reading" /\ life' = "reading") =>
          LoopVariant(lib') < LoopVariant(lib)]_vars

\* C29 witness: the loop about to make another pass after the pass in
\* which the demuxer read failed for the first time
C29_Witness ==
    /\ life = "reading" /\ hist.open
    /\ vc.m_flush_pending /\ lib.pos = Len(lib.file.pkts)

\* C30: in the Filtered strategy the filter chain is sent its
\* end-of-stream signal only after the decoder has been sent its own and
\* has reported that it has no more pictures (it is draining and empty),
\* and no decoded picture is pushed into the chain after the chain's
\* end-of-stream signal.
C30_ChainEosAfterDecoderDrained ==
    (life = "live" /\ hist.open /\ Strategy = "Filtered") =>
        /\ lib.filt_eos > 0 =>
              /\ vc.m_flush_pending /\ lib.dec_eos > 0
              /\ lib.draining /\ lib.dec_buf = <<>>
        /\ ~lib.late_push

\* C30 witness: a Filtered session whose decoder held a picture back, read
\* until the chain had been sent its end-of-stream signal
C30_Witness ==
    /\ life = "live" /\ hist.open /\ Strategy = "Filtered"
    /\ lib.file.delay > 0 /\ NumPictures(lib.file) > 0
    /\ lib.filt_eos > 0 /\ lib.filt_eof
    /\ Len(hist.out) = NumPictures(lib.file)

\* C31: once the end-of-stream signal has been sent to the decoder of an
\* opened session, the later loop passes and readFrame calls only drain:
\* no unit is fed to the decoder again, and nothing else is submitted to
\* it after the signal.
C31_OnlyDrainAfterEos ==
    (life = "live" /\ hist.open) =>
        /\ ~lib.late_unit
        /\ lib.dec_eos <= 1

\* C32: whenever isOpened() is true the decoded-picture buffer and the
\* colorspace conversion context are allocated, after any sequence of
\* successful and failed open calls; so a readFrame call that passes the
\* isOpened check never hands a null picture buffer to the decoder or a
\* null conversion context to the converter.
C32_OpenedHasBuffers ==
    (life = "live" /\ isOpened(vc)) =>
        /\ vc.m_yuv_frame /\ lib.frame_live
        /\ vc.m_sws_ctx /\ lib.sws_live

\* the filter chain and its two endpoints, held or not
ChainHeld ==
    /\ vc.m_filter_graph /\ vc.m_buffersrc_ctx /\ vc.m_buffersink_ctx
    /\ lib.graph_live

ChainAbsent ==
    /\ ~vc.m_filter_graph /\ ~vc.m_buffersrc_ctx /\ ~vc.m_buffersink_ctx
    /\ ~lib.graph_live

\* C33: in every reachable state a filter chain is held exactly when the
\* session is open with the Filtered strategy: the chain handle and its
\* source and sink endpoints are non-null after a successful Filtered open
\* (and through its reads), and null after a Direct open, after close,
\* after a failed open and before any open.
C33_ChainIffFilteredSession ==
    life = "live" =>
        IF hist.open /\ hist.impl = "readFrameFiltered"
        THEN ChainHeld
        ELSE ChainAbsent

\* C33 witness: a Direct open that followed a Filtered session that had
\* been read from
C33_Witness ==
    /\ life = "live" /\ last.op = "open" /\ last.ret
    /\ last.pre.opened /\ last.pre.used
    /\ last.pre.impl = "readFrameFiltered"
    /\ hist.impl = "readFrameDirect" /\ ChainAbsent

\* a failed open (of the filter chain itself) that followed a Filtered
\* session
C33_WitnessFailedOpen ==
    /\ life = "live" /\ last.op = "open" /\ ~last.ret
    /\ last.failAt \in FilterSteps
    /\ last.pre.opened /\ last.pre.impl = "readFrameFiltered"
    /\ ChainAbsent

\* C34: in the Direct strategy, at every point between a successful open
\* and the next close, the frame counter equals the number of pictures
\* pulled from the decoder since that open; each successful readFrame
\* pulls exactly one picture and each failing readFrame pulls none.
C34_DirectCounterIsPulled ==
    (life = "live" /\ hist.open /\ hist.impl = "readFrameDirect") =>
        /\ vc.m_frame_count = lib.dec_out
        /\ \A env \in ReadEnvs :
              \A r \in {readFrame(World, env)} :
                  /\ r.w.lib.dec_out = lib.dec_out + (IF r.ret THEN 1 ELSE 0)
                  /\ r.w.vc.m_frame_count = r.w.lib.dec_out

\* C34 witness: a Direct session on a file of MaxPkts video units whose
\* decoder holds a picture back, after reads that returned every picture
\* and one that failed
C34_Witness ==
    /\ life = "live" /\ hist.open /\ hist.impl = "readFrameDirect"
    /\ lib.file.delay > 0 /\ NumPictures(lib.file) = MaxPkts
    /\ vc.m_frame_count = MaxPkts /\ lib.dec_out = MaxPkts
    /\ last.op = "readFrame" /\ ~last.ret

\* the number of av_read_frame calls of the readFrame call r, made from
\* the library state l, that failed: every successful one moves the
\* demuxer one unit on
FailedReads(l, r) ==
    Cardinality({k \in 1..Len(r.w.log) : r.w.log[k] = "av_read_frame"})
        - (r.w.lib.pos - l.pos)

\* C35: a failure to read the next unit from the demuxer, whatever its
\* cause (the end of the file or a failed input), is handled as input
\* exhaustion: by the end of a readFrame call in which a read failed (and
\* nothing else did) the decoder has been sent its end-of-stream signal,
\* the call has submitted no empty packet to the decoder (after the
\* failure it only drains), and it does not return false while the
\* decoder still holds a picture.
C35_ReadFailureIsExhaustion ==
    (life = "live" /\ hist.open) =>
        \A env \in {e \in ReadEnvs : e.dst /\ e.pkt_alloc /\ ~e.reject
                                      /\ e.chain = "ok"} :
            \A r \in {readFrame(World, env)} :
                FailedReads(lib, r) > 0 =>
                    /\ r.w.vc.m_flush_pending /\ r.w.lib.dec_eos > 0
                    /\ ~InLog(r.w.log, {"send_blank"})
                    /\ ~r.ret => r.w.lib.dec_buf = <<>>

\* C36: on an opened session whose stream reports no frame count, whenever
\* the stream's duration is known and get(CAP_PROP_FPS) returns a frame
\* rate (the average rate or, failing that, the real rate),
\* get(CAP_PROP_FRAME_COUNT) is the duration in seconds times that rate;
\* it is -1 only when the duration or the frame rate is unavailable.
C36_FrameCountIsDurationTimesFps ==
    (life = "live" /\ isOpened(vc) /\ Stream(lib.file).nb_frames <= 0) =>
        LET stream == Stream(lib.file)
            fps == get(vc, lib, CAP_PROP_FPS)
            count == get(vc, lib, CAP_PROP_FRAME_COUNT)
            known == /\ stream.duration # AV_NOPTS_VALUE
                     /\ ~RatEq(fps, Rat(-1, 1))
        IN /\ known =>
                RatEq(count, RatMul(RatMul(Rat(stream.duration, 1),
                                           av_q2d(stream.time_base)), fps))
           /\ RatEq(count, Rat(-1, 1)) => ~known

\* C37: an open of a ResizeCapture that returns false because its filter
\* chain could not be built leaves the session not opened and the object
\* holding no demuxer, no decoder and no partially built filter chain.
C37_ResizeFailedOpenUnwinds ==
    (/\ life = "live" /\ last.op = "ResizeCapture::open" /\ ~last.ret
     /\ last.failAt \in FilterSteps) =>
        /\ ~isOpened(vc)
        /\ ~vc.m_fmt_ctx /\ ~lib.fmt_live
        /\ ~vc.m_codec_ctx /\ ~lib.codec_live
        /\ ~vc.resize.m_filter_graph /\ ~lib.graph_live
===========================================================================
